---------------------------- MODULE Spec2Model ----------------------------
(***************************************************************************)
(* Model of the lawbot legal-database engine (src/handlers/legal_database  *)
(* .py, routed by src/bot.py): the article cache with its 6 hour expiry,   *)
(* the page fetcher, the article parser, the number lookup, the keyword    *)
(* search, the chunked delivery and the wizard handlers.                   *)
(*                                                                         *)
(* Text.  A Python str is a sequence of symbols, one symbol per code       *)
(* point.  Symbols are ASCII names of the code points of the source        *)
(* (Cyrillic letters transliterated: "ya" is one letter, "S" the capital   *)
(* of "s"; "{tabs}", "{return}", "{vs16}", "{1234}", "{glass}" are the     *)
(* pictographs of the source's literals).  A fill symbol "<fill n>" is a   *)
(* run of n full stops, so that texts of several thousand characters stay  *)
(* small values; no input phrase contains a full stop.                     *)
(***************************************************************************)
EXTENDS Integers, Sequences, FiniteSets, TLC

----------------------------------------------------------------------------
(* Program constants *)

\* cache_timeout = timedelta(hours=6); the clock of the model counts hours
cache_timeout == 6

\* fetch_page_content retries a 429 while attempt < 3
max_attempt == 3

\* chunk_size = 4000 in handle_keyword
chunk_size == 4000

\* the keyword handler's minimum phrase length
min_keyword_len == 3

\* the transport's message-size ceiling (sendMessage takes 1..4096 characters)
telegram_max_len == 4096

\* legal_database.py imports neither asyncio nor a name "asyncio": the lookup
\* of asyncio.sleep on line 74 raises NameError
asyncio_imported == FALSE

----------------------------------------------------------------------------
(* Bounds of the model *)

\* hours the clock advances in one step
TickHours == 3

\* the clock stops advancing once it has reached this hour
MaxClock == 6

\* the largest number of articles of a map given to search_by_keyword
MaxArticles == 6

\* the largest number of text elements of a page given to parse_articles
MaxElements == 4

----------------------------------------------------------------------------
(* Text *)

Digits == {"0", "1", "2", "3", "4", "5", "6", "7", "8", "9"}

\* str.split() and \s: the whitespace of the model's alphabet
Whitespace == {" ", "\n"}

\* [a-ya, i] of the header pattern: the lowercase Cyrillic letters
CyrLower ==
    {"a", "b", "v", "h", "d", "e", "ye", "zh", "z", "y", "i", "yi", "j", "k",
     "l", "m", "n", "o", "p", "r", "s", "t", "u", "f", "kh", "ts", "ch", "sh",
     "shch", "soft", "yu", "ya"}

UpperToLower ==
    ("S" :> "s") @@ ("P" :> "p") @@ ("B" :> "b") @@ ("Ts" :> "ts") @@
    ("K" :> "k") @@ ("U" :> "u") @@ ("Yu" :> "yu") @@ ("A" :> "a")

\* str.lower(), one code point
Lower(c) == IF c \in DOMAIN UpperToLower THEN UpperToLower[c] ELSE c

\* str.lower()
LowerText(s) == [i \in 1..Len(s) |-> Lower(s[i])]

\* the fill symbols in use and the number of characters each stands for
FillLen ==
    ("<fill 1000>" :> 1000) @@ ("<fill 4072>" :> 4072) @@
    ("<fill 4090>" :> 4090)

CharLen(c) == IF c \in DOMAIN FillLen THEN FillLen[c] ELSE 1

RECURSIVE FillExtra(_, _)
\* the characters the fill symbols of s stand for beyond one each
FillExtra(s, fills) ==
    IF fills = {} THEN 0
    ELSE LET c == CHOOSE x \in fills : TRUE
         IN  (CharLen(c) - 1) * Cardinality({i \in 1..Len(s) : s[i] = c})
                 + FillExtra(s, fills \ {c})

\* len(s)
TextLen(s) == Len(s) + FillExtra(s, DOMAIN FillLen)

RECURSIVE SplitFrom(_, _, _, _)
SplitFrom(s, i, cur, acc) ==
    IF i > Len(s)
    THEN IF cur = <<>> THEN acc ELSE Append(acc, cur)
    ELSE IF s[i] \in Whitespace
         THEN SplitFrom(s, i + 1, <<>>,
                        IF cur = <<>> THEN acc ELSE Append(acc, cur))
         ELSE SplitFrom(s, i + 1, Append(cur, s[i]), acc)

\* str.split(): the maximal runs of non-whitespace, in order
Split(s) == SplitFrom(s, 1, <<>>, <<>>)

\* needle in hay
Contains(hay, needle) ==
    \E i \in 0..(Len(hay) - Len(needle)) :
        SubSeq(hay, i + 1, i + Len(needle)) = needle

RECURSIVE JoinFrom(_, _)
JoinFrom(parts, i) ==
    IF i > Len(parts) THEN <<>>
    ELSE IF i = Len(parts) THEN parts[i]
    ELSE parts[i] \o <<"\n">> \o JoinFrom(parts, i + 1)

\* '\n'.join(parts)
Join(parts) == JoinFrom(parts, 1)

\* Literals of the source
ReturnToMenu ==
    <<"{return}", "{vs16}", " ", "P", "o", "v", "e", "r", "n", "u", "t", "y",
      "s", "ya", " ", "d", "o", " ", "m", "e", "n", "yu">>

MenuPlain ==
    <<"P", "o", "v", "e", "r", "n", "u", "t", "y", "s", "ya", " ", "d", "o",
      " ", "m", "e", "n", "yu">>

DatabaseButton == <<"B", "a", "z", "a", " ", "d", "a", "n", "y", "kh">>

TrainerButton ==
    <<"Yu", "r", "y", "d", "y", "ch", "n", "y", "j", " ", "t", "r", "e", "n",
      "e", "r">>

CivilCode ==
    <<"Ts", "y", "v", "i", "l", "soft", "n", "y", "j", " ", "k", "o", "d",
      "e", "k", "s", " ", "U", "k", "r", "a", "yi", "n", "y">>

CriminalCode ==
    <<"K", "r", "y", "m", "i", "n", "a", "l", "soft", "n", "y", "j", " ",
      "k", "o", "d", "e", "k", "s", " ", "U", "k", "r", "a", "yi", "n", "y">>

ByNumberButton ==
    <<"{1234}", " ", "P", "o", "sh", "u", "k", " ", "z", "a", " ", "n", "o",
      "m", "e", "r", "o", "m", " ", "s", "t", "a", "t", "t", "i">>

ByKeywordButton ==
    <<"{glass}", " ", "P", "o", "sh", "u", "k", " ", "z", "a", " ", "k", "l",
      "yu", "ch", "o", "v", "y", "m", " ", "s", "l", "o", "v", "o", "m">>

Stattya == <<"S", "t", "a", "t", "t", "ya">>

ResultPrefix == <<"{tabs}", " ", "S", "t", "a", "t", "t", "ya", " ">>

ArticlePrefix == <<"{tabs}", " ">>

----------------------------------------------------------------------------
(* Regular expressions of the source *)

\* re.match(r'^\d+$', text): one or more digits, then the end of the text or
\* one newline that ends it ($ also matches before a final newline)
AllDigitsMatch(text) ==
    LET n == IF Len(text) > 0 /\ text[Len(text)] = "\n"
             THEN Len(text) - 1 ELSE Len(text)
    IN  n >= 1 /\ \A i \in 1..n : text[i] \in Digits

RECURSIVE DigitsEnd(_, _)
\* the position after the run of digits that starts at i (greedy \d+)
DigitsEnd(text, i) ==
    IF i <= Len(text) /\ text[i] \in Digits THEN DigitsEnd(text, i + 1) ELSE i

RECURSIVE SpaceEnd(_, _)
\* the position after the run of whitespace that starts at i (greedy \s+)
SpaceEnd(text, i) ==
    IF i <= Len(text) /\ text[i] \in Whitespace THEN SpaceEnd(text, i + 1) ELSE i

NoMatch == <<>>

\* re.match(r'Stattya\s+(\d+(?:[a-ya i]|(?:\-\d+)?)?)', text).group(1), or
\* NoMatch: the word, whitespace, digits, then one lowercase letter or a
\* hyphen with digits when they follow
ArticleMatch(text) ==
    LET w  == Len(Stattya)
        s0 == w + 1
        d0 == SpaceEnd(text, s0)
        d1 == DigitsEnd(text, d0)
        h1 == DigitsEnd(text, d1 + 1)
    IN  IF Len(text) < w \/ SubSeq(text, 1, w) # Stattya THEN NoMatch
        ELSE IF d0 = s0 \/ d1 = d0 THEN NoMatch
        ELSE IF d1 <= Len(text) /\ text[d1] \in CyrLower
             THEN SubSeq(text, d0, d1)
        ELSE IF d1 <= Len(text) /\ text[d1] = "-" /\ h1 > d1 + 1
             THEN SubSeq(text, d0, h1 - 1)
        ELSE SubSeq(text, d0, d1 - 1)

\* re.compile('(' + word + ')') raises re.error: over the model's alphabet a
\* word fails to compile exactly when it holds a closing parenthesis, which
\* closes the group early and leaves the pattern's own one unbalanced
CompileFails(word) == \E i \in 1..Len(word) : word[i] = ")"

RECURSIVE SubFrom(_, _, _, _)
SubFrom(s, w, i, acc) ==
    IF i > Len(s) THEN acc
    ELSE IF i + Len(w) - 1 <= Len(s)
            /\ LowerText(SubSeq(s, i, i + Len(w) - 1)) = w
         THEN SubFrom(s, w, i + Len(w),
                      acc \o <<"*">> \o SubSeq(s, i, i + Len(w) - 1) \o <<"*">>)
         ELSE SubFrom(s, w, i + 1, Append(acc, s[i]))

\* re.compile('(' + w + ')', re.IGNORECASE).sub(r'*\1*', s) for a lowercased
\* word w of plain characters: the leftmost non-overlapping occurrences
Highlight(s, w) == SubFrom(s, w, 1, <<>>)

----------------------------------------------------------------------------
(* Article maps: a Python dict, kept as the sequence of its items in        *)
(* insertion order                                                          *)

DictKeys(d) == {d[i].num : i \in 1..Len(d)}

DictHas(d, k) == k \in DictKeys(d)

\* d[k]
DictGet(d, k) == d[CHOOSE i \in 1..Len(d) : d[i].num = k].text

\* d[k] = v: a new key is appended, an old key keeps its place
DictSet(d, k, v) ==
    IF DictHas(d, k)
    THEN [i \in 1..Len(d) |-> IF d[i].num = k THEN [num |-> k, text |-> v] ELSE d[i]]
    ELSE Append(d, [num |-> k, text |-> v])

----------------------------------------------------------------------------
(* parse_articles *)

\* A page is what BeautifulSoup makes of the markup: whether one of the
\* three content containers is found, and get_text(strip=True) of each p,
\* div and span under it, in document order
NoContainer == [container |-> FALSE, elements |-> <<>>]

\* a commit that keeps the text an identifier already has
Commit_keepFirst(articles, num, lines) ==
    IF num # NoMatch /\ lines # <<>> /\ ~DictHas(articles, num)
    THEN DictSet(articles, num, Join(lines)) ELSE articles

\* the commit of lines 111-112 and 122-123
Commit(articles, num, lines) ==
    IF num # NoMatch /\ lines # <<>>
    THEN DictSet(articles, num, Join(lines)) ELSE articles

RECURSIVE ParseFrom(_, _, _, _, _)
ParseFrom(elements, i, articles, num, lines) ==
    IF i > Len(elements) THEN Commit(articles, num, lines)
    ELSE LET text == elements[i]
             m    == ArticleMatch(text)
         IN  IF text = <<>> THEN ParseFrom(elements, i + 1, articles, num, lines)
             ELSE IF m # NoMatch
                  THEN ParseFrom(elements, i + 1, Commit(articles, num, lines),
                                 m, <<text>>)
             ELSE IF num # NoMatch
                  THEN ParseFrom(elements, i + 1, articles, num, Append(lines, text))
             ELSE ParseFrom(elements, i + 1, articles, num, lines)

parse_articles(page) ==
    IF ~page.container THEN <<>>
    ELSE ParseFrom(page.elements, 1, <<>>, NoMatch, <<>>)

----------------------------------------------------------------------------
(* search_by_keyword *)

AllWordsIn(content, search_words) ==
    \A j \in 1..Len(search_words) : Contains(LowerText(content), search_words[j])

RECURSIVE HighlightAll(_, _, _)
HighlightAll(content, search_words, j) ==
    IF j > Len(search_words) THEN content
    ELSE HighlightAll(Highlight(content, search_words[j]), search_words, j + 1)

\* the f-string of line 171; article_num is kept beside the text
FormatResult(article_num, formatted_content) ==
    [article_num |-> article_num,
     text |-> ResultPrefix \o article_num \o <<":", "\n", "\n">>
              \o formatted_content \o <<"\n">>]

RECURSIVE SearchFrom(_, _, _, _)
SearchFrom(articles, search_words, i, results) ==
    IF i > Len(articles) THEN [raised |-> FALSE, results |-> results]
    ELSE IF AllWordsIn(articles[i].text, search_words)
         THEN IF \E j \in 1..Len(search_words) : CompileFails(search_words[j])
              THEN [raised |-> TRUE, results |-> <<>>]
              ELSE SearchFrom(articles, search_words, i + 1,
                     Append(results,
                            FormatResult(articles[i].num,
                                HighlightAll(articles[i].text, search_words, 1))))
         ELSE SearchFrom(articles, search_words, i + 1, results)

\* a search that stops collecting at 5 results
search_by_keyword_capped(articles, keyword) ==
    LET r == SearchFrom(articles, Split(LowerText(keyword)), 1, <<>>)
    IN  [r EXCEPT !.results = SubSeq(@, 1, IF Len(@) < 5 THEN Len(@) ELSE 5)]

\* search_by_keyword(articles, keyword): the list it returns, or raised when
\* re.compile raises re.error out of it
search_by_keyword(articles, keyword) ==
    SearchFrom(articles, Split(LowerText(keyword)), 1, <<>>)

----------------------------------------------------------------------------
(* The number lookup of handle_article_number *)

\* the variations with the letters tried before the "-1"
Variations_lettersFirst(article_number) ==
    <<article_number,
      article_number \o <<"a">>,
      article_number \o <<"b">>,
      article_number \o <<"-", "1">>>>

\* variations, lines 265-270
Variations(article_number) ==
    <<article_number,
      article_number \o <<"-", "1">>,
      article_number \o <<"a">>,
      article_number \o <<"b">>>>

\* the loop of lines 272-280: the first variation that is a key, or NoMatch
FirstVariation(articles, article_number) ==
    LET v   == Variations(article_number)
        hit == {i \in 1..Len(v) : DictHas(articles, v[i])}
    IN  IF hit = {} THEN NoMatch
        ELSE v[CHOOSE i \in hit : \A j \in hit : i <= j]

----------------------------------------------------------------------------
(* The catalog, the remote pages and the messages *)

\* two of the five entries of LEGAL_CODES; a URL is the entry's id and which
\* of its two addresses it is
LEGAL_CODES ==
    (CivilCode :> [id |-> "435-15",
                   url |-> [id |-> "435-15", kind |-> "url"],
                   print_url |-> [id |-> "435-15", kind |-> "print_url"]]) @@
    (CriminalCode :> [id |-> "2341-14",
                      url |-> [id |-> "2341-14", kind |-> "url"],
                      print_url |-> [id |-> "2341-14", kind |-> "print_url"]])

CodeIds == {LEGAL_CODES[n].id : n \in DOMAIN LEGAL_CODES}

\* response.text() of a 200 answer: an empty body, or markup as BeautifulSoup
\* reads it
EmptyBody == [empty |-> TRUE, container |-> FALSE, elements |-> <<>>]

NoContainerPage == [empty |-> FALSE, container |-> FALSE, elements |-> <<>>]

\* a preface, article 5 on two elements, an empty element, article 7a, and
\* article 8 on two elements, 5086 characters long
PageA ==
    [empty |-> FALSE, container |-> TRUE,
     elements |->
        << <<"z", "a", "h", "a", "l">>,
           Stattya \o <<" ", "5", " ", "P", "r", "a", "v", "o">>,
           <<"n", "a", " ", "o", "s", "v", "i", "t", "u">>,
           <<>>,
           Stattya \o <<" ", "7", "a", " ", "1", ")", " ", "p", "r", "a", "v", "o">>,
           Stattya \o <<" ", "8", " ", "s", "u", "d", " ", "<fill 4072>">>,
           <<"<fill 1000>">> >>]

Pages == {EmptyBody, NoContainerPage, PageA}

\* response.status of one request; 0 stands for no response at all (a
\* transport error or the 30 s timeout raised inside the try block)
Statuses == {200, 429, 404, 0}

\* Fixed texts the handlers send, one symbol each
MsgChooseSection == <<"{Oberit rozdil:}">>
MsgChooseCode == <<"{Oberit kodeks dlya poshuku:}">>
MsgChooseCodeAgain == <<"{Bud laska, oberit kodeks iz zaproponovanoho spysku:}">>
MsgChooseMethod == <<"{Oberit metod poshuku:}">>
MsgChooseMethodAgain == <<"{Bud laska, oberit metod poshuku iz zaproponovanykh variantiv:}">>
MsgEnterNumber == <<"{Vvedit nomer statti:}">>
MsgEnterKeyword == <<"{Vvedit klyuchove slovo abo frazu dlya poshuku:}">>
MsgNumberAgain == <<"{Bud laska, vvedit chyslovyj nomer statti.}">>
MsgKeywordAgain == <<"{Bud laska, vvedit shchonajmenshe 3 symvoly dlya poshuku.}">>
MsgSearchingArticle == <<"{Shukayu stattyu...}">>
MsgSearchingArticles == <<"{Shukayu statti...}">>
MsgArticleNotFound == <<"{Stattyu ne znajdeno. Perevirte nomer ta sprobujte shche raz.}">>
MsgNothingFound == <<"{Nichoho ne znajdeno za vashym zapytom.}">>
MsgSearchFailed == <<"{Vynykla pomylka pry poshuku. Sprobujte piznishe.}">>
MsgQuestion == <<"{? question}">>
MsgAnswerChecked == <<"{Pravylno! / Nepravylno! explanation}">>

\* The message texts a user sends: the buttons of the keyboards and typed
\* numbers and phrases.  The transport delivers a text trimmed of surrounding
\* whitespace and never empty.
Texts ==
    {ReturnToMenu, DatabaseButton, TrainerButton, CivilCode, CriminalCode,
     ByNumberButton, ByKeywordButton,
     <<"5">>, <<"8">>, <<"9">>, <<"5", "a">>,
     <<"n", "a">>, <<"p", "r", "a", "v", "o">>, <<"s", "u", "d">>,
     <<"s", "t", "a">>, <<"1", ")", " ", "p">>, <<" ", " ", " ">>}

\* sendMessage: the transport takes a text of 1 to 4096 characters and
\* answers any other with an error, which aiogram raises
TelegramAccepts(text) == TextLen(text) >= 1 /\ TextLen(text) <= telegram_max_len

----------------------------------------------------------------------------
(* State *)

VARIABLES
    now,            \* datetime.now(), in hours
    article_cache,  \* article_cache: code id -> [timestamp, articles]
    fsm_state,      \* the user's FSMContext state
    fsm_data,       \* the user's FSMContext data
    message,        \* message.text of the update being handled
    handler,        \* the handler the dispatcher gave the update to
    pc,             \* where each task stands
    frame,          \* fetch_and_parse_code's locals, per task
    trace,          \* what the task's current call has done so far
    results,        \* handle_keyword's results
    sent,           \* the handler's calls of message.answer
    deletes,        \* the handler's calls of loading_msg.delete()
    escaped,        \* an exception left the handler
    history         \* per code id, the times at which its entry was written

vars ==
    <<now, article_cache, fsm_state, fsm_data, message, handler, pc, frame,
      trace, results, sent, deletes, escaped, history>>

\* task 1 runs the user's handlers; task 2 is another request task
Tasks == {1, 2}

User == 1

\* html_content is what fetch_page_content last returned (line 145), the
\* empty body standing for None
NoFrame ==
    [code_id |-> "", url_index |-> 0, attempt |-> 0, html_content |-> EmptyBody,
     articles |-> <<>>]

\* checked is the hour of the call's cache check, -1 before it
NoTrace ==
    [checked |-> -1, fresh |-> FALSE, fetches |-> <<>>, parses |-> 0,
     stored |-> FALSE]

NoData == [selected_code |-> <<>>]

Init ==
    /\ now = 0
    /\ article_cache = <<>>
    /\ fsm_state = "none"
    /\ fsm_data = NoData
    /\ message = <<>>
    /\ handler = "none"
    /\ pc = [t \in Tasks |-> "idle"]
    /\ frame = [t \in Tasks |-> NoFrame]
    /\ trace = [t \in Tasks |-> NoTrace]
    /\ results = <<>>
    /\ sent = <<>>
    /\ deletes = <<>>
    /\ escaped = FALSE
    /\ history = [c \in CodeIds |-> <<>>]

----------------------------------------------------------------------------
(* fetch_page_content and fetch_and_parse_code *)

\* the candidates in the other order
Urls_swapped == <<"url", "print_url">>

\* urls = [code_data['print_url'], code_data['url']]
Urls == <<"print_url", "url">>

\* a cache check that serves nothing
IsFresh_never(cache, code_id, clock) == FALSE

\* a cache check that still serves an entry of exactly 6 hours
IsFresh_inclusive(cache, code_id, clock) ==
    /\ code_id \in DOMAIN cache
    /\ clock - cache[code_id].timestamp <= cache_timeout

\* the cache check of lines 136-139
IsFresh(cache, code_id, clock) ==
    /\ code_id \in DOMAIN cache
    /\ clock - cache[code_id].timestamp < cache_timeout

\* session.get(url): one more request of the fetch that is under way
IssueRequest(fetches) ==
    [fetches EXCEPT ![Len(fetches)].requests = @ + 1]

\* fetch_page_content(url) is called: a new fetch, and its first request
StartFetch(fetches, url) ==
    Append(fetches,
           [url |-> url, requests |-> 1, statuses |-> <<>>, sleeps |-> <<>>,
            result |-> "pending"])

\* a fetcher that retries every answer but 200
OnResponse_retryAll(status, attempt) ==
    IF status = 200 THEN "content"
    ELSE IF attempt < max_attempt THEN "retry"
    ELSE "None"

\* what fetch_page_content does with an answer, lines 71-81: "content" (line
\* 72), "retry" (lines 74-75) or "None" (lines 76-78, and the except clause
\* for a transport error and for the NameError of line 74)
OnResponse(status, attempt) ==
    IF status = 200 THEN "content"
    ELSE IF status = 429 /\ attempt < max_attempt
         THEN IF asyncio_imported THEN "retry" ELSE "None"
    ELSE "None"

\* 2 ** attempt
Pow2(n) == IF n = 0 THEN 1 ELSE IF n = 1 THEN 2 ELSE IF n = 2 THEN 4 ELSE 8

\* a store that renews the timestamp of an entry and keeps its articles
CachePut_partial(cache, code_id, clock, articles) ==
    [k \in DOMAIN cache \cup {code_id} |->
        IF k = code_id
        THEN [timestamp |-> clock,
              articles |-> IF k \in DOMAIN cache THEN cache[k].articles
                           ELSE articles]
        ELSE cache[k]]

\* a store that dates a replacement one hour before the entry it replaces
CachePut_backdated(cache, code_id, clock, articles) ==
    [k \in DOMAIN cache \cup {code_id} |->
        IF k = code_id
        THEN [timestamp |-> IF k \in DOMAIN cache THEN cache[k].timestamp - 1
                            ELSE clock,
              articles |-> articles]
        ELSE cache[k]]

\* a store that drops the entries of the other codes
CachePut_evicting(cache, code_id, clock, articles) ==
    [k \in {code_id} |-> [timestamp |-> clock, articles |-> articles]]

\* article_cache[code_id] = {'timestamp': ..., 'articles': ...}
CachePut(cache, code_id, clock, articles) ==
    [k \in DOMAIN cache \cup {code_id} |->
        IF k = code_id THEN [timestamp |-> clock, articles |-> articles]
        ELSE cache[k]]

\* fetch_and_parse_code up to its first await: the cache check, then the
\* request for the first candidate
FetchAndParseEnter(t) ==
    /\ pc[t] = "call"
    /\ IF IsFresh(article_cache, frame[t].code_id, now)
       THEN /\ frame' = [frame EXCEPT ![t].articles =
                            article_cache[frame[t].code_id].articles]
            /\ trace' = [trace EXCEPT ![t].fresh = TRUE, ![t].checked = now]
            /\ pc' = [pc EXCEPT ![t] = "returned"]
       ELSE /\ frame' = [frame EXCEPT ![t].url_index = 1, ![t].attempt = 0]
            /\ trace' = [trace EXCEPT
                            ![t].checked = now,
                            ![t].fetches =
                                StartFetch(@, [id |-> frame[t].code_id,
                                               kind |-> Urls[1]])]
            /\ pc' = [pc EXCEPT ![t] = "awaiting"]
    /\ UNCHANGED <<now, article_cache, fsm_state, fsm_data, message, handler,
                   results, sent, deletes, escaped, history>>

\* if html_content: (line 146)
HasContent(page) == ~page.empty

\* a loop that takes an empty parse too
Accepted_any(articles) == TRUE

\* if articles: (line 148)
Accepted(articles) == articles # <<>>

\* the answer to the pending request arrives and the task runs to its next
\* await: a retry of the same address, the request for the next candidate,
\* or the return of fetch_and_parse_code
Respond(t, status, page) ==
    /\ pc[t] = "awaiting"
    /\ status = 200 \/ page = EmptyBody
    /\ LET f        == trace[t].fetches
           n        == Len(f)
           code_id  == frame[t].code_id
           outcome  == OnResponse(status, frame[t].attempt)
           seen     == [f EXCEPT ![n].statuses = Append(@, status)]
           closed   == [seen EXCEPT ![n].result =
                            IF outcome = "content" THEN "content" ELSE "None"]
           content  == IF outcome = "content" THEN page ELSE EmptyBody
           parsed   == HasContent(content)
           articles == IF parsed THEN parse_articles(content) ELSE <<>>
           parses   == IF parsed THEN trace[t].parses + 1 ELSE trace[t].parses
       IN  IF outcome = "retry"
           THEN /\ frame' = [frame EXCEPT ![t].attempt = @ + 1]
                /\ trace' = [trace EXCEPT ![t].fetches =
                                IssueRequest([seen EXCEPT ![n].sleeps =
                                    Append(@, Pow2(frame[t].attempt))])]
                /\ pc' = pc
                /\ UNCHANGED <<article_cache, history>>
           ELSE IF parsed /\ Accepted(articles)
           THEN /\ article_cache' = CachePut(article_cache, code_id, now, articles)
                /\ history' = [history EXCEPT ![code_id] = Append(@, now)]
                /\ frame' = [frame EXCEPT ![t].articles = articles,
                                          ![t].html_content = content]
                /\ trace' = [trace EXCEPT ![t].fetches = closed,
                                          ![t].parses = parses,
                                          ![t].stored = TRUE]
                /\ pc' = [pc EXCEPT ![t] = "returned"]
           ELSE IF frame[t].url_index < Len(Urls)
           THEN /\ frame' = [frame EXCEPT ![t].url_index = @ + 1,
                                          ![t].attempt = 0,
                                          ![t].html_content = content]
                /\ trace' = [trace EXCEPT
                                ![t].fetches =
                                    StartFetch(closed,
                                        [id |-> code_id,
                                         kind |-> Urls[frame[t].url_index + 1]]),
                                ![t].parses = parses]
                /\ pc' = pc
                /\ UNCHANGED <<article_cache, history>>
           ELSE /\ frame' = [frame EXCEPT ![t].articles = <<>>,
                                          ![t].html_content = content]
                /\ trace' = [trace EXCEPT ![t].fetches = closed,
                                          ![t].parses = parses]
                /\ pc' = [pc EXCEPT ![t] = "returned"]
                /\ UNCHANGED <<article_cache, history>>
    /\ UNCHANGED <<now, fsm_state, fsm_data, message, handler, results, sent,
                   deletes, escaped>>

\* time passes
Tick ==
    /\ now < MaxClock
    /\ now' = now + TickHours
    /\ UNCHANGED <<article_cache, fsm_state, fsm_data, message, handler, pc,
                   frame, trace, results, sent, deletes, escaped, history>>

----------------------------------------------------------------------------
(* The transport calls of a handler *)

\* await message.answer(text): the call, the results it carries when it is a
\* chunk, and whether the transport took it
Answer(log, text, parts) ==
    Append(log, [text |-> text, parts |-> parts, ok |-> TelegramAccepts(text)])

\* await loading_msg.delete(): the transport deletes a message once and
\* answers a second deletion with an error, which aiogram raises
DeleteLoading(log) == Append(log, IF log = <<>> THEN "ok" ELSE "error")

----------------------------------------------------------------------------
(* Routing: bot.py includes the routers in the order start, trainer, menu, *)
(* legal_database; the first handler whose filter passes takes the update  *)

Route(text, state) ==
    IF text = TrainerButton THEN "button_start_trainer"
    ELSE IF state = "waiting_for_answer" THEN "check_answer"
    ELSE IF text \in {MenuPlain, ReturnToMenu} THEN "menu_handler"
    ELSE IF text = DatabaseButton THEN "start_database_search"
    ELSE IF state = "choosing_code" THEN "handle_code_selection"
    ELSE IF state = "search_method" THEN "handle_search_method"
    ELSE IF state = "waiting_for_article_number" THEN "handle_article_number"
    ELSE IF state = "waiting_for_keyword" THEN "handle_keyword"
    ELSE "unhandled"

----------------------------------------------------------------------------
(* Handlers, each up to its first await on the network or to its end *)

Done == [pc EXCEPT ![User] = "done"]

Stay ==
    /\ pc' = Done
    /\ UNCHANGED <<fsm_state, fsm_data, frame>>

menu_handler ==
    /\ sent' = Answer(<<>>, MsgChooseSection, <<>>)
    /\ Stay

\* trainer.py, start_training: update_data adds the trainer's keys to the
\* FSM data and keeps the others; the trainer's keys are not kept here, no
\* handler of the database reads them
button_start_trainer ==
    /\ sent' = Answer(<<>>, MsgQuestion, <<>>)
    /\ fsm_state' = "waiting_for_answer"
    /\ pc' = Done
    /\ UNCHANGED <<fsm_data, frame>>

\* trainer.py, check_answer: it answers and leaves the state as it is
check_answer ==
    /\ sent' = Answer(<<>>, MsgAnswerChecked, <<>>)
    /\ Stay

start_database_search ==
    /\ sent' = Answer(<<>>, MsgChooseCode, <<>>)
    /\ fsm_state' = "choosing_code"
    /\ pc' = Done
    /\ UNCHANGED <<fsm_data, frame>>

\* a handler that takes any text as the name of a code
handle_code_selection_anyName(text) ==
    IF text = ReturnToMenu
    THEN /\ fsm_state' = "none"
         /\ fsm_data' = NoData
         /\ sent' = Answer(<<>>, MsgChooseSection, <<>>)
         /\ pc' = Done
         /\ UNCHANGED frame
    ELSE /\ fsm_data' = [fsm_data EXCEPT !.selected_code = text]
         /\ sent' = Answer(<<>>, MsgChooseMethod, <<>>)
         /\ fsm_state' = "search_method"
         /\ pc' = Done
         /\ UNCHANGED frame

handle_code_selection(text) ==
    IF text = ReturnToMenu
    THEN /\ fsm_state' = "none"
         /\ fsm_data' = NoData
         /\ sent' = Answer(<<>>, MsgChooseSection, <<>>)
         /\ pc' = Done
         /\ UNCHANGED frame
    ELSE IF text \in DOMAIN LEGAL_CODES
    THEN /\ fsm_data' = [fsm_data EXCEPT !.selected_code = text]
         /\ sent' = Answer(<<>>, MsgChooseMethod, <<>>)
         /\ fsm_state' = "search_method"
         /\ pc' = Done
         /\ UNCHANGED frame
    ELSE /\ sent' = Answer(<<>>, MsgChooseCodeAgain, <<>>)
         /\ Stay

handle_search_method(text) ==
    IF text = ReturnToMenu
    THEN /\ sent' = Answer(<<>>, MsgChooseCode, <<>>)
         /\ fsm_state' = "choosing_code"
         /\ pc' = Done
    /\ UNCHANGED <<fsm_data, frame>>
    ELSE IF text = ByNumberButton
    THEN /\ sent' = Answer(<<>>, MsgEnterNumber, <<>>)
         /\ fsm_state' = "waiting_for_article_number"
         /\ pc' = Done
    /\ UNCHANGED <<fsm_data, frame>>
    ELSE IF text = ByKeywordButton
    THEN /\ sent' = Answer(<<>>, MsgEnterKeyword, <<>>)
         /\ fsm_state' = "waiting_for_keyword"
         /\ pc' = Done
    /\ UNCHANGED <<fsm_data, frame>>
    ELSE /\ sent' = Answer(<<>>, MsgChooseMethodAgain, <<>>)
         /\ Stay

\* a handler that takes every text as a number
ValidNumber_any(text) == TRUE

\* the validation of line 246
ValidNumber(text) == AllDigitsMatch(text)

\* the validation of line 301
ValidKeyword(text) == ~(TextLen(text) < min_keyword_len)

\* lines 252-260: the selected code's catalog entry, the status message, and
\* the call of fetch_and_parse_code
StartSearch(status_text) ==
    /\ sent' = Answer(<<>>, status_text, <<>>)
    /\ frame' = [frame EXCEPT ![User] =
                    [NoFrame EXCEPT !.code_id = LEGAL_CODES[fsm_data.selected_code].id]]
    /\ pc' = [pc EXCEPT ![User] = "call"]
    /\ UNCHANGED <<fsm_state, fsm_data>>

handle_article_number(text) ==
    IF ~ValidNumber(text)
    THEN /\ sent' = Answer(<<>>, MsgNumberAgain, <<>>)
         /\ Stay
    ELSE StartSearch(MsgSearchingArticle)

handle_keyword(text) ==
    IF ~ValidKeyword(text)
    THEN /\ sent' = Answer(<<>>, MsgKeywordAgain, <<>>)
         /\ Stay
    ELSE StartSearch(MsgSearchingArticles)

unhandled ==
    /\ sent' = <<>>
    /\ Stay

\* the user sends a message and the dispatcher runs its handler
Receive(text) ==
    /\ pc[User] = "idle"
    /\ message' = text
    /\ handler' = Route(text, fsm_state)
    /\ UNCHANGED <<trace, results, deletes, escaped>>
    /\ LET h == Route(text, fsm_state)
       IN  CASE h = "button_start_trainer" -> button_start_trainer
             [] h = "check_answer" -> check_answer
             [] h = "menu_handler" -> menu_handler
             [] h = "start_database_search" -> start_database_search
             [] h = "handle_code_selection" -> handle_code_selection(text)
             [] h = "handle_search_method" -> handle_search_method(text)
             [] h = "handle_article_number" -> handle_article_number(text)
             [] h = "handle_keyword" -> handle_keyword(text)
             [] OTHER -> unhandled
    /\ UNCHANGED <<now, article_cache, history>>

----------------------------------------------------------------------------
(* handle_article_number after fetch_and_parse_code has returned *)

\* lines 262-297
handle_article_number_lookup ==
    /\ pc[User] = "returned"
    /\ handler = "handle_article_number"
    /\ LET articles  == frame[User].articles
           variation == FirstVariation(articles, message)
           reply     == IF variation # NoMatch
                        THEN ArticlePrefix \o DictGet(articles, variation)
                        ELSE MsgArticleNotFound
       IN  /\ sent' = Answer(sent, reply, <<>>)
           /\ IF TelegramAccepts(reply)
              THEN /\ deletes' = DeleteLoading(deletes)
                   /\ escaped' = FALSE
                   /\ fsm_state' = "choosing_code"
              ELSE \* the except clause deletes again, which raises
                   /\ deletes' = DeleteLoading(DeleteLoading(deletes))
                   /\ escaped' = TRUE
                   /\ fsm_state' = fsm_state
    /\ pc' = Done
    /\ UNCHANGED <<now, article_cache, fsm_data, message, handler, frame,
                   trace, results, history>>

----------------------------------------------------------------------------
(* handle_keyword after fetch_and_parse_code has returned *)

\* lines 315-317 and, when the search raises, 347-355
handle_keyword_search ==
    /\ pc[User] = "returned"
    /\ handler = "handle_keyword"
    /\ LET r == search_by_keyword(frame[User].articles, message)
       IN  IF r.raised
           THEN /\ deletes' = DeleteLoading(deletes)
                /\ sent' = Answer(sent, MsgSearchFailed, <<>>)
                /\ results' = <<>>
                /\ fsm_state' = "choosing_code"
                /\ pc' = Done
           ELSE /\ deletes' = DeleteLoading(deletes)
                /\ sent' = sent
                /\ results' = r.results
                /\ fsm_state' = fsm_state
                /\ pc' = [pc EXCEPT ![User] = "deliver"]
    /\ UNCHANGED <<now, article_cache, fsm_data, message, handler, frame,
                   trace, escaped, history>>

RECURSIVE ChunkLoop(_, _, _, _, _)
\* the loop of lines 325-340 from result i on: the calls of message.answer
\* it makes, up to the first one that raises
ChunkLoop(rs, i, current_chunk, current_length, log) ==
    IF i > Len(rs)
    THEN IF current_chunk # <<>>
         THEN Answer(log, Join([j \in 1..Len(current_chunk) |-> current_chunk[j].text]),
                     current_chunk)
         ELSE log
    ELSE IF current_length + TextLen(rs[i].text) > chunk_size
    THEN LET out == Answer(log,
                        Join([j \in 1..Len(current_chunk) |-> current_chunk[j].text]),
                        current_chunk)
         IN  IF out[Len(out)].ok
             THEN ChunkLoop(rs, i + 1, <<rs[i]>>, TextLen(rs[i].text), out)
             ELSE out
    ELSE ChunkLoop(rs, i + 1, Append(current_chunk, rs[i]),
                   current_length + TextLen(rs[i].text), log)

\* lines 319-355
handle_keyword_deliver ==
    /\ pc[User] = "deliver"
    /\ LET log == IF results # <<>>
                  THEN ChunkLoop(results, 1, <<>>, 0, sent)
                  ELSE Answer(sent, MsgNothingFound, <<>>)
       IN  /\ sent' = log
           /\ IF log[Len(log)].ok
              THEN /\ deletes' = deletes
                   /\ escaped' = FALSE
                   /\ fsm_state' = "choosing_code"
              ELSE \* the except clause deletes again, which raises
                   /\ deletes' = DeleteLoading(deletes)
                   /\ escaped' = TRUE
                   /\ fsm_state' = fsm_state
    /\ pc' = Done
    /\ UNCHANGED <<now, article_cache, fsm_data, message, handler, frame,
                   trace, results, history>>

\* the handler's coroutine ends: what it leaves behind is the FSM context
\* and the cache
Return ==
    /\ pc[User] = "done"
    /\ pc' = [pc EXCEPT ![User] = "idle"]
    /\ message' = <<>>
    /\ handler' = "none"
    /\ frame' = [frame EXCEPT ![User] = NoFrame]
    /\ trace' = [trace EXCEPT ![User] = NoTrace]
    /\ results' = <<>>
    /\ sent' = <<>>
    /\ deletes' = <<>>
    /\ escaped' = FALSE
    /\ UNCHANGED <<now, article_cache, fsm_state, fsm_data, history>>

----------------------------------------------------------------------------
(* The bot with one user *)

Next ==
    \/ Tick
    \/ \E text \in Texts : Receive(text)
    \/ FetchAndParseEnter(User)
    \/ \E status \in Statuses, page \in Pages : Respond(User, status, page)
    \/ handle_article_number_lookup
    \/ handle_keyword_search
    \/ handle_keyword_deliver
    \/ Return

Spec == Init /\ [][Next]_vars

----------------------------------------------------------------------------
(* Two request tasks that call fetch_and_parse_code for the same code and  *)
(* interleave at its awaits                                                *)

\* the code both tasks ask for
RaceCode == "435-15"

\* a page with another article than PageA
PageB ==
    [empty |-> FALSE, container |-> TRUE,
     elements |-> << Stattya \o <<" ", "9", " ", "s", "u", "d">> >>]

RacePages == {EmptyBody, PageA, PageB}

RaceStatuses == {200, 404}

\* a handler of the task's user calls fetch_and_parse_code(code_data)
Call(t) ==
    /\ pc[t] = "idle"
    /\ pc' = [pc EXCEPT ![t] = "call"]
    /\ frame' = [frame EXCEPT ![t] = [NoFrame EXCEPT !.code_id = RaceCode]]
    /\ trace' = [trace EXCEPT ![t] = NoTrace]
    /\ UNCHANGED <<now, article_cache, fsm_state, fsm_data, message, handler,
                   results, sent, deletes, escaped, history>>

\* the handler has the articles and goes on without the cache
CallReturn(t) ==
    /\ pc[t] = "returned"
    /\ pc' = [pc EXCEPT ![t] = "idle"]
    /\ frame' = [frame EXCEPT ![t] = NoFrame]
    /\ trace' = [trace EXCEPT ![t] = NoTrace]
    /\ UNCHANGED <<now, article_cache, fsm_state, fsm_data, message, handler,
                   results, sent, deletes, escaped, history>>

NextRace ==
    \/ Tick
    \/ \E t \in Tasks : Call(t)
    \/ \E t \in Tasks : FetchAndParseEnter(t)
    \/ \E t \in Tasks, status \in RaceStatuses, page \in RacePages :
           Respond(t, status, page)
    \/ \E t \in Tasks : CallReturn(t)

SpecRace == Init /\ [][NextRace]_vars

----------------------------------------------------------------------------
(* The number lookup over every article map of a small key set: the state  *)
(* in which fetch_and_parse_code has just returned to handle_article_number *)

LookupKeys == << <<"5">>, <<"5", "-", "1">>, <<"5", "a">>, <<"5", "b">>, <<"5", "0">> >>

\* the text of an article as parse_articles leaves it: its header, then
\* a short or a long body
LookupText(key, long) ==
    Stattya \o <<" ">> \o key \o
        (IF long THEN <<" ", "<fill 4090>">> ELSE <<" ", "p">>)

RECURSIVE LookupMap(_, _, _)
\* the map with the keys of K in index order, the first of them long or not
LookupMap(K, i, long) ==
    IF i > Len(LookupKeys) THEN <<>>
    ELSE IF i \in K
         THEN <<[num |-> LookupKeys[i], text |-> LookupText(LookupKeys[i], long)]>>
              \o LookupMap(K, i + 1, FALSE)
         ELSE LookupMap(K, i + 1, long)

\* a call that was served from the cache, or one whose candidates both
\* answered 404 when the map is empty
LookupTrace(articles) ==
    IF articles # <<>> THEN [NoTrace EXCEPT !.fresh = TRUE, !.checked = 0]
    ELSE [NoTrace EXCEPT !.checked = 0, !.fetches =
            <<[url |-> [id |-> "435-15", kind |-> "print_url"], requests |-> 1,
               statuses |-> <<404>>, sleeps |-> <<>>, result |-> "None"],
              [url |-> [id |-> "435-15", kind |-> "url"], requests |-> 1,
               statuses |-> <<404>>, sleeps |-> <<>>, result |-> "None"]>>]

InitLookup ==
    \E K \in SUBSET (1..Len(LookupKeys)), long \in BOOLEAN,
       n \in {<<"5">>, <<"5", "0">>} :
        LET articles == LookupMap(K, 1, long)
        IN  /\ now = 0
            /\ article_cache =
                   IF articles = <<>> THEN <<>>
                   ELSE ("435-15" :> [timestamp |-> 0, articles |-> articles])
            /\ history = [c \in CodeIds |->
                             IF c = "435-15" /\ articles # <<>> THEN <<0>> ELSE <<>>]
            /\ fsm_state = "waiting_for_article_number"
            /\ fsm_data = [selected_code |-> CivilCode]
            /\ message = n
            /\ handler = "handle_article_number"
            /\ pc = [t \in Tasks |-> IF t = User THEN "returned" ELSE "idle"]
            /\ frame = [t \in Tasks |->
                           IF t = User
                           THEN [NoFrame EXCEPT !.code_id = "435-15",
                                                !.articles = articles,
                                                !.url_index =
                                                    IF articles = <<>> THEN 2 ELSE 0]
                           ELSE NoFrame]
            /\ trace = [t \in Tasks |->
                           IF t = User THEN LookupTrace(articles) ELSE NoTrace]
            /\ results = <<>>
            /\ sent = Answer(<<>>, MsgSearchingArticle, <<>>)
            /\ deletes = <<>>
            /\ escaped = FALSE

NextLookup == handle_article_number_lookup

SpecLookup == InitLookup /\ [][NextLookup]_vars

----------------------------------------------------------------------------
(* Properties of the cache and the fetcher *)

\* the code of the user's current call of fetch_and_parse_code
CallCode == frame[User].code_id

\* the call has returned to the handler
CallOver == pc[User] \in {"returned", "deliver", "done"} /\ CallCode # ""

\* an entry for c exists and is younger than 6 hours
Younger(c) == c \in DOMAIN article_cache /\ now - article_cache[c].timestamp < 6

C1_Step ==
    (pc[User] = "call" /\ pc'[User] # "call") =>
        IF Younger(CallCode)
        THEN /\ pc'[User] = "returned"
             /\ frame'[User].articles = article_cache[CallCode].articles
             /\ trace'[User].fetches = <<>>
             /\ trace'[User].parses = 0
             /\ article_cache' = article_cache
        ELSE /\ pc'[User] = "awaiting"
             /\ Len(trace'[User].fetches) = 1
             /\ trace'[User].fetches[1].requests = 1

C1_Window ==
    /\ \A c \in CodeIds : \A i \in 1..(Len(history[c]) - 1) :
           history[c][i + 1] - history[c][i] >= 6
    /\ trace[User].stored => trace[User].parses >= 1

\* C1: a call that finds an entry younger than 6 hours returns that entry's
\* articles without any fetch or parse and leaves the cache alone, a call
\* that finds no entry or one of 6 hours or more issues a request; so the
\* successful fetch+parse runs of one code lie at least 6 hours apart.
C1_CacheFreshness == [][C1_Step]_vars /\ []C1_Window

\* a second call, three hours or more after the first one stored, is served
\* from the cache
C1_Witness ==
    /\ pc[User] = "returned"
    /\ trace[User].fresh
    /\ trace[User].fetches = <<>>
    /\ now > article_cache[CallCode].timestamp
    /\ Len(history[CallCode]) = 1

C2_State ==
    /\ \A c \in DOMAIN article_cache : article_cache[c].articles # <<>>
    /\ (CallOver /\ ~trace[User].fresh /\ ~trace[User].stored) =>
           /\ frame[User].articles = <<>>
           /\ Len(trace[User].fetches) = 2
           /\ ~Younger(CallCode)

C2_Step ==
    (article_cache' # article_cache) =>
        /\ trace'[User].stored
        /\ frame'[User].articles # <<>>

\* C2: a call whose candidates all fail or parse to nothing returns the
\* empty map after trying both and writes nothing: the cache changes only
\* when a call stores a non-empty map, no entry holds an empty map, and after
\* the failed call the code has no entry younger than 6 hours, so the next
\* call fetches again.
C2_NoCacheOnFailure == []C2_State /\ [][C2_Step]_vars

\* both candidates answered 200 and neither parsed to an article
C2_Witness ==
    /\ pc[User] = "returned"
    /\ ~trace[User].stored
    /\ Len(trace[User].fetches) = 2
    /\ trace[User].fetches[1].statuses = <<200>>
    /\ trace[User].fetches[2].statuses = <<200>>
    /\ trace[User].parses >= 1
    /\ CallCode \notin DOMAIN article_cache

C3_State ==
    LET f == trace[User].fetches
    IN  /\ Len(f) <= 2
        /\ \A i \in 1..Len(f) :
               f[i].url = [id |-> CallCode,
                           kind |-> IF i = 1 THEN "print_url" ELSE "url"]
        /\ Len(f) = 2 => f[1].result # "pending"
        /\ trace[User].stored =>
               /\ pc[User] # "awaiting"
               /\ f[Len(f)].result = "content"

C3_Step ==
    LET f == trace[User].fetches
        g == trace'[User].fetches
    IN  /\ (trace'[User].stored /\ ~trace[User].stored) =>
               /\ frame'[User].articles # <<>>
               /\ article_cache'[CallCode] =
                      [timestamp |-> now, articles |-> frame'[User].articles]
               /\ pc'[User] = "returned"
        /\ (Len(f) = 1 /\ f[1].result = "pending" /\ g # f
                /\ ~trace'[User].stored) =>
               /\ Len(g) = 2
               /\ g[1].result # "pending"
               /\ pc'[User] = "awaiting"
        /\ (trace[User].stored /\ pc'[User] # "idle") => g = f

\* C3: the print URL is requested first and the canonical URL second, the
\* second only once the first has failed or parsed to nothing; the first
\* candidate with a non-empty map is stored under the code with the time of
\* the store and returned, and no request follows it.
C3_CandidateOrder == []C3_State /\ [][C3_Step]_vars

\* the print URL answered 200 without an article and the canonical URL gave
\* the articles that were stored
C3_Witness ==
    /\ pc[User] = "returned"
    /\ trace[User].stored
    /\ Len(trace[User].fetches) = 2
    /\ trace[User].fetches[1].statuses = <<200>>
    /\ article_cache[CallCode].timestamp = now
    /\ now > 0

\* C4: a fetch that ends with None on a 429 answer has issued 4 requests
\* and slept 1, 2 and 4 units between them.
C4_RetryOn429 ==
    \A i \in 1..Len(trace[User].fetches) :
        LET f == trace[User].fetches[i]
        IN  (f.result = "None" /\ f.statuses[Len(f.statuses)] = 429) =>
                /\ f.requests = 4
                /\ f.sleeps = <<1, 2, 4>>

\* C5: a fetch whose request is answered by a status other than 200 and 429,
\* or by no response at all, has issued that one request only and has
\* returned None; an answer is followed by another request of the same fetch
\* only when it is a 429.
C5_NoRetryOnOther ==
    \A i \in 1..Len(trace[User].fetches) :
        LET f == trace[User].fetches[i]
            s == f.statuses
        IN  /\ (s # <<>> /\ s[1] \notin {200, 429}) =>
                   /\ f.requests = 1
                   /\ f.result = "None"
            /\ \A j \in 1..(Len(s) - 1) : s[j] = 429
            /\ f.requests <= Len(s) + 1

\* the print URL did not respond and the canonical URL answered 404
C5_Witness ==
    /\ pc[User] = "returned"
    /\ Len(trace[User].fetches) = 2
    /\ trace[User].fetches[1].statuses = <<0>>
    /\ trace[User].fetches[1].result = "None"
    /\ trace[User].fetches[2].statuses = <<404>>
    /\ trace[User].fetches[2].result = "None"

----------------------------------------------------------------------------
(* parse_articles over every page of up to MaxElements text elements: the  *)
(* state in which fetch_and_parse_code awaits the answer of the canonical  *)
(* URL after the print URL answered 404                                    *)

\* get_text(strip=True) of an element: a text that is no header, two
\* headers of article 5, a header with a letter, a header with a hyphen
\* number, and the empty text
ElementTexts ==
    { <<"z", "a", "h">>,
      Stattya \o <<" ", "5", " ", "p">>,
      Stattya \o <<" ", "5", " ", "s">>,
      Stattya \o <<" ", "5", "a">>,
      Stattya \o <<" ", "7", "-", "1", " ", "x">>,
      <<>> }

ParsePages ==
    UNION { { [empty |-> FALSE, container |-> TRUE, elements |-> e] :
                e \in [1..n -> ElementTexts] } : n \in 0..MaxElements }

InitParse ==
    /\ now = 0
    /\ article_cache = <<>>
    /\ fsm_state = "waiting_for_article_number"
    /\ fsm_data = [selected_code |-> CivilCode]
    /\ message = <<"5">>
    /\ handler = "handle_article_number"
    /\ pc = [t \in Tasks |-> IF t = User THEN "awaiting" ELSE "idle"]
    /\ frame = [t \in Tasks |->
                   IF t = User
                   THEN [NoFrame EXCEPT !.code_id = "435-15", !.url_index = 2]
                   ELSE NoFrame]
    /\ trace = [t \in Tasks |->
                   IF t = User
                   THEN [NoTrace EXCEPT
                            !.checked = 0,
                            !.fetches =
                                StartFetch(
                                    <<[url |-> [id |-> "435-15", kind |-> "print_url"],
                                       requests |-> 1, statuses |-> <<404>>,
                                       sleeps |-> <<>>, result |-> "None"]>>,
                                    [id |-> "435-15", kind |-> "url"])]
                   ELSE NoTrace]
    /\ results = <<>>
    /\ sent = Answer(<<>>, MsgSearchingArticle, <<>>)
    /\ deletes = <<>>
    /\ escaped = FALSE
    /\ history = [c \in CodeIds |-> <<>>]

NextParse == \E page \in ParsePages : Respond(User, 200, page)

SpecParse == InitParse /\ [][NextParse]_vars

----------------------------------------------------------------------------
(* The keyword search over every article map of up to MaxArticles articles: *)
(* the state in which fetch_and_parse_code has just returned to             *)
(* handle_keyword                                                           *)

\* the decimal digit of a number below 10
Digits_of == <<"1", "2", "3", "4", "5", "6", "7", "8", "9">>

\* the bodies an article of these maps can have; 0 is no article
SearchBodies ==
    << <<"p", "r", "a", "v", "o">>, <<"1", ")", " ", "s", "u", "d">> >>

SearchPhrases ==
    { <<"p", "r", "a", "v", "o">>, <<"S", "U", "D">>, <<"s", "t", "a">>,
      <<"s", "u", "d", " ", "p", "r", "a">>, <<"1", ")", " ", "p">> }

RECURSIVE SearchMap(_, _)
\* the map with article i under the number i for each i that body gives a
\* body, in the order of the numbers
SearchMap(body, i) ==
    IF i > MaxArticles THEN <<>>
    ELSE IF body[i] = 0 THEN SearchMap(body, i + 1)
    ELSE <<[num |-> <<Digits_of[i]>>,
            text |-> Stattya \o <<" ", Digits_of[i], " ">> \o SearchBodies[body[i]]]>>
         \o SearchMap(body, i + 1)

InitSearch ==
    \E body \in [1..MaxArticles -> 0..Len(SearchBodies)],
       phrase \in SearchPhrases :
        LET articles == SearchMap(body, 1)
        IN  /\ now = 0
            /\ article_cache =
                   IF articles = <<>> THEN <<>>
                   ELSE ("435-15" :> [timestamp |-> 0, articles |-> articles])
            /\ history = [c \in CodeIds |->
                             IF c = "435-15" /\ articles # <<>> THEN <<0>> ELSE <<>>]
            /\ fsm_state = "waiting_for_keyword"
            /\ fsm_data = [selected_code |-> CivilCode]
            /\ message = phrase
            /\ handler = "handle_keyword"
            /\ pc = [t \in Tasks |-> IF t = User THEN "returned" ELSE "idle"]
            /\ frame = [t \in Tasks |->
                           IF t = User
                           THEN [NoFrame EXCEPT !.code_id = "435-15",
                                                !.articles = articles,
                                                !.url_index =
                                                    IF articles = <<>> THEN 2 ELSE 0]
                           ELSE NoFrame]
            /\ trace = [t \in Tasks |->
                           IF t = User THEN LookupTrace(articles) ELSE NoTrace]
            /\ results = <<>>
            /\ sent = Answer(<<>>, MsgSearchingArticles, <<>>)
            /\ deletes = <<>>
            /\ escaped = FALSE

NextSearch ==
    \/ handle_keyword_search
    \/ handle_keyword_deliver

SpecSearch == InitSearch /\ [][NextSearch]_vars

----------------------------------------------------------------------------
(* Properties of the handlers *)

\* C6: for an all-digit number n and any article map the handler makes one
\* answer after the status message: the text of key n when n is a key, else
\* of n-1, else of na, else of nb, and the 'not found' text exactly when none
\* of the four is a key.
C6_NumberLookup ==
    (pc[User] = "done" /\ handler = "handle_article_number"
        /\ (\A i \in 1..Len(message) : message[i] \in Digits)) =>
        LET a == frame[User].articles
            n == message
        IN  /\ Len(sent) = 2
            /\ sent[1].text = MsgSearchingArticle
            /\ sent[2].text =
                  IF DictHas(a, n) THEN <<"{tabs}", " ">> \o DictGet(a, n)
                  ELSE IF DictHas(a, n \o <<"-", "1">>)
                       THEN <<"{tabs}", " ">> \o DictGet(a, n \o <<"-", "1">>)
                  ELSE IF DictHas(a, n \o <<"a">>)
                       THEN <<"{tabs}", " ">> \o DictGet(a, n \o <<"a">>)
                  ELSE IF DictHas(a, n \o <<"b">>)
                       THEN <<"{tabs}", " ">> \o DictGet(a, n \o <<"b">>)
                  ELSE MsgArticleNotFound

\* n is no key while n-1, na and nb all are, and the answer is the text of
\* n-1
C6_Witness ==
    /\ pc[User] = "done"
    /\ handler = "handle_article_number"
    /\ message = <<"5">>
    /\ ~DictHas(frame[User].articles, <<"5">>)
    /\ DictHas(frame[User].articles, <<"5", "-", "1">>)
    /\ DictHas(frame[User].articles, <<"5", "a">>)
    /\ DictHas(frame[User].articles, <<"5", "b">>)
    /\ Len(sent) = 2
    /\ sent[2].text =
          <<"{tabs}", " ">> \o DictGet(frame[User].articles, <<"5", "-", "1">>)

\* the articles whose lowercased text contains every term of the phrase, in
\* the order of the map
MatchingNums(articles, phrase) ==
    LET terms == Split(LowerText(phrase))
        hit(a) == \A j \in 1..Len(terms) : Contains(LowerText(a.text), terms[j])
        m == SelectSeq(articles, hit)
    IN  [i \in 1..Len(m) |-> m[i].num]

\* C7: once search_by_keyword has run, the handler holds one result for
\* each article whose lowercased text contains every term of the phrase, and
\* no other, in the order of the map.
C7_KeywordConjunction ==
    (handler = "handle_keyword" /\ pc[User] \in {"deliver", "done"}
        /\ Len(sent) >= 1 /\ sent[1].text = MsgSearchingArticles) =>
        [i \in 1..Len(results) |-> results[i].article_num]
            = MatchingNums(frame[User].articles, message)

\* C8: every message handle_keyword sends is at most 4096 characters long.
C8_ChunkSizeLimit ==
    handler = "handle_keyword" =>
        \A i \in 1..Len(sent) : TextLen(sent[i].text) <= 4096

RECURSIVE PartsFrom(_, _)
\* the results carried by the calls from the i-th on, in sending order
PartsFrom(log, i) ==
    IF i > Len(log) THEN <<>> ELSE log[i].parts \o PartsFrom(log, i + 1)

\* C9: when handle_keyword has ended with a non-empty result list, the
\* results of the chunks it sent, in sending order, are the result list.
C9_ChunkIntegrity ==
    (handler = "handle_keyword" /\ pc[User] = "done" /\ results # <<>>) =>
        PartsFrom(sent, 1) = results

C10_Step ==
    (pc[User] = "idle" /\ pc'[User] # "idle"
        /\ \/ /\ handler' = "handle_article_number"
              /\ \E i \in 1..Len(message') : message'[i] \notin Digits
           \/ /\ handler' = "handle_keyword"
              /\ TextLen(message') < 3) =>
        /\ pc'[User] = "done"
        /\ Len(sent') = 1
        /\ sent'[1].text = IF handler' = "handle_article_number"
                           THEN MsgNumberAgain ELSE MsgKeywordAgain
        /\ trace'[User] = NoTrace
        /\ frame'[User] = NoFrame
        /\ UNCHANGED <<fsm_state, fsm_data, article_cache, history>>

\* C10: handle_article_number on a text that is not all digits, and
\* handle_keyword on a text of fewer than 3 characters, send the re-prompt
\* and end: no call of fetch_and_parse_code, and the wizard state, its data
\* and the cache as they were.
C10_InvalidInputRejected == [][C10_Step]_vars

\* the number handler has re-prompted for the text "5a" with a cache that
\* holds an entry
C10_Witness ==
    /\ pc[User] = "done"
    /\ handler = "handle_article_number"
    /\ message = <<"5", "a">>
    /\ sent = Answer(<<>>, MsgNumberAgain, <<>>)
    /\ fsm_state = "waiting_for_article_number"
    /\ article_cache # <<>>

----------------------------------------------------------------------------
(* Properties of the conversation *)

\* the handler took a number or a phrase that passed validation: its first
\* message is the status message
Searching ==
    /\ handler \in {"handle_article_number", "handle_keyword"}
    /\ Len(sent) >= 1
    /\ sent[1].text \in {MsgSearchingArticle, MsgSearchingArticles}

\* the handler said 'search failed, try later'
SaidFailed == \E i \in 1..Len(sent) : sent[i].text = MsgSearchFailed

\* C11: when the handler of a valid number or phrase has ended, it has sent
\* the 'search failed' message exactly when the call of fetch_and_parse_code
\* was not served from the cache and no candidate gave a map to store.
C11_SourceUnavailable ==
    (pc[User] = "done" /\ Searching) =>
        (SaidFailed <=> (~trace[User].fresh /\ ~trace[User].stored))

WizardStates ==
    {"choosing_code", "search_method", "waiting_for_article_number",
     "waiting_for_keyword"}

C12_Step ==
    (pc[User] = "idle" /\ pc'[User] # "idle" /\ message' = ReturnToMenu
        /\ fsm_state \in WizardStates) =>
        /\ fsm_state' # fsm_state
        /\ handler' \notin {"handle_article_number", "handle_keyword"}
        /\ fsm_data'.selected_code # ReturnToMenu
        /\ pc'[User] = "done"

\* C12: the 'return to menu' text received in one of the four wizard states
\* leaves the user in another state, and is not taken as a code name, a
\* number or a phrase.
C12_ReturnToMenuAbort == [][C12_Step]_vars

\* C13: the status message is the one message sent when fetch_and_parse_code
\* is called and is not deleted while the call runs; when the handler ends,
\* loading_msg.delete() has been called once, and that call succeeded.
C13_SearchingStatus ==
    /\ (pc[User] \in {"call", "awaiting", "returned"}) =>
           /\ Searching
           /\ Len(sent) = 1
           /\ deletes = <<>>
    /\ (pc[User] = "done" /\ Searching) => deletes = <<"ok">>

\* the search of the current phrase has returned its list
Searched ==
    handler = "handle_keyword" /\ pc[User] \in {"deliver", "done"}
        /\ Searching /\ ~SaidFailed

\* C14 (as stated): the search returns at most 5 results, the first 5
\* matches in the order of the map.
C14_ResultCap ==
    Searched =>
        LET m == MatchingNums(frame[User].articles, message)
        IN  /\ Len(results) <= 5
            /\ [i \in 1..Len(results) |-> results[i].article_num]
                   = SubSeq(m, 1, IF Len(m) < 5 THEN Len(m) ELSE 5)

\* C14 (amended): the search has no result limit: the list it returns holds
\* one result for every matching article, in the order of the map, however
\* many articles match.
C14_NoResultCap ==
    Searched =>
        /\ [i \in 1..Len(results) |-> results[i].article_num]
               = MatchingNums(frame[User].articles, message)
        /\ Len(results) <= Len(frame[User].articles)

\* six articles match the phrase and six results are returned
C14_Witness ==
    /\ Searched
    /\ Len(MatchingNums(frame[User].articles, message)) = 6
    /\ Len(results) = 6

----------------------------------------------------------------------------
(* Properties of the cache under concurrent request tasks *)

\* task t stores an entry for code c in this step
Stores(t, c) ==
    /\ pc[t] = "awaiting"
    /\ frame[t].code_id = c
    /\ ~trace[t].stored
    /\ trace'[t].stored

\* the entry of code c is created or changed in this step
Written(c) ==
    /\ c \in DOMAIN article_cache'
    /\ c \in DOMAIN article_cache => article_cache'[c] # article_cache[c]

C15_State ==
    \A c \in DOMAIN article_cache :
        /\ DOMAIN article_cache[c] = {"timestamp", "articles"}
        /\ article_cache[c].articles \in
               {parse_articles(p) : p \in RacePages} \ {<<>>}
        /\ history[c] # <<>>
        /\ article_cache[c].timestamp = history[c][Len(history[c])]

C15_Step ==
    \A c \in CodeIds :
        Written(c) =>
            \E t \in Tasks :
                /\ Stores(t, c)
                /\ frame'[t].articles # <<>>
                /\ article_cache'[c] =
                       [timestamp |-> now, articles |-> frame'[t].articles]

\* C15: with two tasks interleaved at the awaits, every entry of the cache
\* is one whole {timestamp, articles} value: each creation or change of an
\* entry is the store of one task, which puts there the time of the store
\* and the map that task parsed, never a part of the entry it replaces.
C15_DuplicateFetchRace == []C15_State /\ [][C15_Step]_vars

\* both tasks checked the cache before either stored, both fetched and
\* parsed, and the store of task 2 has replaced the different map task 1
\* stored
C15_Witness ==
    /\ pc = [t \in Tasks |-> "returned"]
    /\ \A t \in Tasks :
           /\ frame[t].code_id = RaceCode
           /\ trace[t].stored
           /\ trace[t].parses >= 1
           /\ trace[t].checked <= history[RaceCode][1]
    /\ Len(history[RaceCode]) = 2
    /\ frame[1].articles # frame[2].articles
    /\ article_cache[RaceCode].articles = frame[2].articles

C16_Step ==
    \A c \in DOMAIN article_cache :
        Written(c) => now - article_cache[c].timestamp >= 6

\* C16 (as stated): an entry is replaced only when its age at the write is 6
\* hours or more.
C16_ReplaceOnlyExpired == [][C16_Step]_vars

C16_OwnCheckStep ==
    \A c \in DOMAIN article_cache :
        Written(c) =>
            \E t \in Tasks :
                /\ Stores(t, c)
                /\ \/ now - article_cache[c].timestamp >= 6
                   \/ article_cache[c].timestamp >= trace[t].checked

\* C16 (amended): an entry is replaced only by a call whose own cache check
\* found the code missing or expired: the replaced entry is 6 hours old or
\* more at the write, or was stored by another task after that check.
C16_ReplaceAfterOwnCheck == [][C16_OwnCheckStep]_vars

\* a second store has replaced an entry less than 6 hours after the first
C16_Witness ==
    /\ Len(history[RaceCode]) >= 2
    /\ history[RaceCode][2] - history[RaceCode][1] < 6
    /\ \E t \in Tasks : trace[t].stored /\ pc[t] = "returned"

C17_State ==
    \A c \in CodeIds : \A i \in 1..(Len(history[c]) - 1) :
        history[c][i] <= history[c][i + 1]

C17_Step ==
    /\ now' >= now
    /\ \A c \in DOMAIN article_cache :
           /\ c \in DOMAIN article_cache'
           /\ article_cache'[c].timestamp >= article_cache[c].timestamp
    /\ \A t \in Tasks :
           (pc[t] = "call" /\ pc'[t] # "call") =>
               ((pc'[t] = "returned" /\ trace'[t].fresh) <=>
                    /\ frame[t].code_id \in DOMAIN article_cache
                    /\ now - article_cache[frame[t].code_id].timestamp < 6)

\* C17: over every interleaving of the two tasks the timestamp of a code's
\* entry never decreases, and a call is served from the cache exactly when
\* now - timestamp < 6 hours at its check.
C17_TimestampMonotone == []C17_State /\ [][C17_Step]_vars

\* an entry stored at hour 0 has been replaced by one stored at hour 6
C17_Witness ==
    /\ RaceCode \in DOMAIN article_cache
    /\ history[RaceCode] = <<0, 6>>
    /\ article_cache[RaceCode].timestamp = 6

C18_Step ==
    /\ DOMAIN article_cache \subseteq DOMAIN article_cache'
    /\ (pc[User] = "awaiting" /\ pc'[User] = "returned"
            /\ (~trace'[User].stored \/ frame'[User].articles = <<>>)) =>
           /\ article_cache' = article_cache
           /\ frame'[User].articles = <<>>
           /\ ~trace'[User].stored

\* C18: no step removes an entry from the cache, and a call that ends with
\* every candidate failed leaves the cache as it was, a stale entry of its
\* code included, and returns the empty map.
C18_NoEviction == [][C18_Step]_vars

\* the entry of the code is 6 hours old, both candidates failed, the call
\* returned the empty map and the entry is still there with its articles
C18_Witness ==
    /\ pc[User] = "returned"
    /\ ~trace[User].fresh
    /\ ~trace[User].stored
    /\ Len(trace[User].fetches) = 2
    /\ frame[User].articles = <<>>
    /\ CallCode \in DOMAIN article_cache
    /\ now - article_cache[CallCode].timestamp >= 6
    /\ article_cache[CallCode].articles # <<>>

----------------------------------------------------------------------------
(* Properties of the parser *)

\* the identifier of the header at place i of the texts e, NoMatch when the
\* text there is no header
HeaderId(e, i) == ArticleMatch(e[i])

\* the places of the headers among the texts e
Headers(e) == {i \in 1..Len(e) : HeaderId(e, i) # NoMatch}

\* the last place of the article that the header at place i starts
LastLine(e, i) ==
    IF \E j \in Headers(e) : j > i
    THEN (CHOOSE j \in Headers(e) :
              j > i /\ \A k \in Headers(e) : k > i => j <= k) - 1
    ELSE Len(e)

RECURSIVE Segments(_, _)
\* one item for each identifier, at the place of its first header, with the
\* lines of its last header
Segments(e, i) ==
    IF i > Len(e) THEN <<>>
    ELSE IF i \in Headers(e)
            /\ \A j \in Headers(e) : j < i => HeaderId(e, j) # HeaderId(e, i)
         THEN LET last == CHOOSE j \in Headers(e) :
                              /\ HeaderId(e, j) = HeaderId(e, i)
                              /\ \A k \in Headers(e) :
                                     HeaderId(e, k) = HeaderId(e, i) => k <= j
              IN  <<[num |-> HeaderId(e, i),
                     text |-> Join(SubSeq(e, last, LastLine(e, last)))]>>
                  \o Segments(e, i + 1)
         ELSE Segments(e, i + 1)

\* the segmentation of the non-empty texts of a page
Segmentation(page) ==
    Segments(SelectSeq(page.elements, LAMBDA x : x # <<>>), 1)

----------------------------------------------------------------------------
(* Properties of the FSM data *)

C20_State ==
    fsm_state \in {"search_method", "waiting_for_article_number",
                   "waiting_for_keyword"} =>
        fsm_data.selected_code \in DOMAIN LEGAL_CODES

C20_Step ==
    /\ (pc[User] = "idle" /\ handler' = "handle_code_selection"
            /\ message' \notin DOMAIN LEGAL_CODES) =>
           /\ fsm_data' = fsm_data
           /\ fsm_state' = "choosing_code"
    /\ (pc[User] = "call" \/ pc'[User] = "call") =>
           fsm_data.selected_code \in DOMAIN LEGAL_CODES

----------------------------------------------------------------------------
(* The return of the wizard after a search *)

\* the handler of a valid number or phrase has ended
SearchEnded == pc[User] = "done" /\ Searching

C21_Step ==
    (handler' \in {"handle_article_number", "handle_keyword"}
        /\ pc'[User] # "idle") => fsm_data' = fsm_data

\* C21: handle_article_number and handle_keyword never change the stored
\* selected_code, and when either has ended on a number or phrase that passed
\* its validation the user's state is choosing_code, whatever the outcome of
\* the search.
C21_WizardReturn ==
    [](SearchEnded => fsm_state = "choosing_code") /\ [][C21_Step]_vars

----------------------------------------------------------------------------
(* The chunks of handle_keyword *)

\* C22: for a non-empty result list every message handle_keyword sends after
\* the status message carries at least one result and has a non-empty text,
\* also when the first result alone is longer than chunk_size.
C22_NoEmptyChunk ==
    (handler = "handle_keyword" /\ Searching /\ results # <<>>) =>
        \A i \in 2..Len(sent) :
            /\ sent[i].parts # <<>>
            /\ sent[i].text # <<>>

----------------------------------------------------------------------------
(* The terms of a search *)

\* C23: whenever search_by_keyword has run for a phrase that passed the
\* length check of handle_keyword, the phrase, lowercased and split on
\* whitespace, has at least one term.
C23_SomeSearchTerm ==
    (handler = "handle_keyword" /\ Searched) =>
        Split(LowerText(message)) # <<>>

============================================================================
